---- MODULE Spec2Model ----
(***************************************************************************)
(* Model of prepline_general/api/app.py: the error normalizer, the CORS    *)
(* gate, the access-log noise filters, the health probe and the OpenAPI    *)
(* synthesizer (custom_openapi) with its process-wide cache.               *)
(*                                                                         *)
(* Python dicts are functions with a string domain; a missing key is a key *)
(* outside DOMAIN.  None and the empty dict are both the empty function    *)
(* (the code only ever tests them for truthiness).  A "$ref" value         *)
(* "#/components/schemas/X" is the JSON pointer <<"components", "schemas", *)
(* "X">>.  Character strings that the code splits are sequences of         *)
(* one-character strings.                                                  *)
(***************************************************************************)
EXTENDS Integers, Sequences, FiniteSets, TLC

\* ---------------------------------------------------------------- bounds
NumRequests == 2
MaxLen == 3
MaxLog == 2

\* ------------------------------------------------------- dict primitives
None == [k \in {} |-> <<>>]

Truthy(d) == DOMAIN d # {}

HasKey(d, k) == k \in DOMAIN d

Put(d, k, v) == [x \in (DOMAIN d) \cup {k} |-> IF x = k THEN v ELSE d[x]]

Del(d, k) == [x \in (DOMAIN d) \ {k} |-> d[x]]

Ref(name) == <<"components", "schemas", name>>

\* ------------------------------------------------- names used by the code
PartitionPath == "/general/v0/general"
HealthPath == "/healthcheck"
AutoBody == "Body_partition"
PublicBody == "partition_parameters"
ElementsName == "Elements"
Multipart == "multipart/form-data"
AppJson == "application/json"

\* the hand-authored schema properties: field name |-> declared type
PartitionProperties ==
    [files |-> "string", strategy |-> "string",
     gz_uncompressed_content_type |-> "string", output_format |-> "string",
     coordinates |-> "boolean", encoding |-> "string",
     hi_res_model_name |-> "string", include_page_breaks |-> "boolean",
     languages |-> "array", pdf_infer_table_structure |-> "boolean",
     skip_infer_table_types |-> "array", xml_keep_tags |-> "boolean",
     chunking_strategy |-> "string", multipage_sections |-> "boolean",
     combine_under_n_chars |-> "integer", new_after_n_chars |-> "integer",
     max_characters |-> "integer"]

ElementsSchema ==
    [type |-> "array",
     items |-> [Element |-> [type |-> "object",
                             properties |-> {"type", "element_id", "metadata", "text"}]]]

SecuritySchemes ==
    [ApiKeyAuth |-> [type |-> "apiKey", name |-> "unstructured-api-key", in |-> "header"]]

RetryPolicy ==
    [strategy |-> "backoff",
     backoff |-> [initialInterval |-> 500, maxInterval |-> 60000,
                  maxElapsedTime |-> 3600000, exponent |-> <<3, 2>>],
     statusCodes |-> <<"5xx">>,
     retryConnectionErrors |-> TRUE]

\* ------------------------------------------------------- the route table
\* variant: the health probe is declared without include_in_schema=False
HealthRoutePublished ==
    [path |-> HealthPath, method |-> "get", include_in_schema |-> TRUE,
     body |-> "", body_fields |-> {}, resp_json |-> TRUE]

\* The health probe declared by the application itself.
HealthRoute ==
    [path |-> HealthPath, method |-> "get", include_in_schema |-> FALSE,
     body |-> "", body_fields |-> {}, resp_json |-> TRUE]

\* What the included router may contribute for the partition operation: the
\* expected route, the same route under another path, under another generated
\* body name, without a JSON response, or without a body at all.
PartitionVariants ==
    { [path |-> p, method |-> "post", include_in_schema |-> TRUE,
       body |-> b, body_fields |-> {"files", "strategy"}, resp_json |-> j] :
        p \in {PartitionPath, "/general/v1/general"},
        b \in {AutoBody, "Body_partition_general_v0_general_post"},
        j \in BOOLEAN }
    \cup
    { [path |-> PartitionPath, method |-> "post", include_in_schema |-> TRUE,
       body |-> "", body_fields |-> {}, resp_json |-> TRUE] }

ExtraRoutes ==
    { [path |-> "/metrics", method |-> "get", include_in_schema |-> TRUE,
       body |-> "", body_fields |-> {}, resp_json |-> TRUE],
      [path |-> PartitionPath, method |-> "get", include_in_schema |-> FALSE,
       body |-> "", body_fields |-> {}, resp_json |-> TRUE] }

RouteTables ==
    { {HealthRoute} \cup P \cup X :
        P \in { S \in SUBSET PartitionVariants : Cardinality(S) <= 1 },
        X \in SUBSET ExtraRoutes }

\* ------------------------------------------------------------ get_openapi
Included(rs) == { r \in rs : r.include_in_schema }

Operation(r) ==
    LET ok200 == IF r.resp_json
                 THEN [content |-> (AppJson :> [schema |-> None])]
                 ELSE [content |-> ("text/plain" :> [schema |-> None])]
        responses == IF r.body = ""
                     THEN ("200" :> ok200)
                     ELSE ("200" :> ok200) @@
                          ("422" :> [content |->
                              (AppJson :> [schema |-> ("$ref" :> Ref("HTTPValidationError"))])])
    IN  IF r.body = ""
        THEN [responses |-> responses]
        ELSE [responses |-> responses,
              requestBody |-> [content |->
                  (Multipart :> [schema |-> ("$ref" :> Ref(r.body))])]]

GeneratedSchemas(rs) ==
    LET bodies == { r \in Included(rs) : r.body # "" }
        names == { r.body : r \in bodies } \cup
                 (IF bodies = {} THEN {} ELSE {"HTTPValidationError", "ValidationError"})
    IN  [n \in names |->
            IF n \in {"HTTPValidationError", "ValidationError"}
            THEN [title |-> n, properties |-> [detail |-> "array"]]
            ELSE LET r == CHOOSE x \in bodies : x.body = n
                 IN  [title |-> n,
                      properties |-> [f \in r.body_fields |-> "string"]]]

get_openapi(rs) ==
    LET inc == Included(rs)
        paths == [p \in { r.path : r \in inc } |->
                    [m \in { r.method : r \in { x \in inc : x.path = p } } |->
                        Operation(CHOOSE r \in inc : r.path = p /\ r.method = m)]]
        base == [openapi |-> "3.1.0",
                 info |-> [title |-> "Unstructured Pipeline API", version |-> "0.0.57"],
                 paths |-> paths]
        schemas == GeneratedSchemas(rs)
    IN  IF Truthy(schemas) THEN Put(base, "components", [schemas |-> schemas]) ELSE base

\* -------------------------------------------- custom_openapi, line by line
\* Each line yields [ok, doc]: ok = FALSE is the KeyError the line raises, and
\* doc is the local openapi_schema after the line.
Done(d) == [ok |-> TRUE, doc |-> d]

KeyError(d) == [ok |-> FALSE, doc |-> d]

\* openapi_schema["security"] = [{"ApiKeyAuth": []}]
AddSecurity(d) == Done(Put(d, "security", <<[ApiKeyAuth |-> <<>>]>>))

\* openapi_schema["x-speakeasy-retries"] = {...}
AddRetries(d) == Done(Put(d, "x-speakeasy-retries", RetryPolicy))

HasOperation(d) ==
    /\ HasKey(d.paths, PartitionPath)
    /\ HasKey(d.paths[PartitionPath], "post")

\* ...["requestBody"]["content"]["multipart/form-data"]["schema"]["$ref"] = ...
RedirectRequestRef(d) ==
    IF /\ HasOperation(d)
       /\ HasKey(d.paths[PartitionPath].post, "requestBody")
       /\ HasKey(d.paths[PartitionPath].post.requestBody.content, Multipart)
    THEN Done([d EXCEPT !.paths[PartitionPath].post.requestBody.content[Multipart].schema =
                            Put(@, "$ref", Ref(PublicBody))])
    ELSE KeyError(d)

\* ...["responses"]["200"]["content"]["application/json"]["schema"] = {"$ref": ...}
RedirectResponseRef(d) ==
    IF /\ HasOperation(d)
       /\ HasKey(d.paths[PartitionPath].post.responses, "200")
       /\ HasKey(d.paths[PartitionPath].post.responses["200"].content, AppJson)
    THEN Done([d EXCEPT !.paths[PartitionPath].post.responses["200"].content[AppJson] =
                            Put(@, "schema", ("$ref" :> Ref(ElementsName)))])
    ELSE KeyError(d)

\* openapi_schema["components"]["securitySchemes"] = {...}
AddSecuritySchemes(d) ==
    IF HasKey(d, "components")
    THEN Done([d EXCEPT !.components = Put(@, "securitySchemes", SecuritySchemes)])
    ELSE KeyError(d)

\* variant: the schema is copied under the public name and the generated name stays
RenameBodyCopy(d) ==
    IF HasKey(d, "components") /\ HasKey(d.components.schemas, AutoBody)
    THEN Done([d EXCEPT !.components.schemas = Put(@, PublicBody, @[AutoBody])])
    ELSE KeyError(d)

\* variant: pop("Body_partition", {}) - a missing generated schema is tolerated
RenameBodyDefault(d) ==
    IF HasKey(d, "components")
    THEN Done([d EXCEPT !.components.schemas =
                   Put(Del(@, AutoBody), PublicBody,
                       IF HasKey(@, AutoBody) THEN @[AutoBody] ELSE None)])
    ELSE KeyError(d)

\* schemas["partition_parameters"] = schemas.pop("Body_partition")
RenameBody(d) ==
    IF HasKey(d, "components") /\ HasKey(d.components.schemas, AutoBody)
    THEN Done([d EXCEPT !.components.schemas =
                   Put(Del(@, AutoBody), PublicBody, @[AutoBody])])
    ELSE KeyError(d)

\* schemas["partition_parameters"]["title"] = "Partition Parameters"
SetTitle(d) ==
    IF HasKey(d, "components") /\ HasKey(d.components.schemas, PublicBody)
    THEN Done([d EXCEPT !.components.schemas[PublicBody] =
                   Put(@, "title", "Partition Parameters")])
    ELSE KeyError(d)

\* schemas["partition_parameters"]["properties"] = {...}
SetProperties(d) ==
    IF HasKey(d, "components") /\ HasKey(d.components.schemas, PublicBody)
    THEN Done([d EXCEPT !.components.schemas[PublicBody] =
                   Put(@, "properties", PartitionProperties)])
    ELSE KeyError(d)

\* schemas["Elements"] = {...}
AddElements(d) ==
    IF HasKey(d, "components")
    THEN Done([d EXCEPT !.components.schemas = Put(@, ElementsName, ElementsSchema)])
    ELSE KeyError(d)

\* The statements of custom_openapi after the cache test, in program order.
Lines == <<"L95", "L107", "L110", "L126", "L127", "L134", "L145", "L147",
           "L148", "L262", "L273", "L274">>

\* variant: the baseline is taken from the cache when there is one
BaselineMemo(rs, cache) == IF Truthy(cache) THEN cache ELSE get_openapi(rs)

\* the baseline description: get_openapi(..., routes=app.routes, ...), which
\* does not consult the cache
Baseline(rs, cache) == get_openapi(rs)

\* variant: the document is assigned to the cache first and mutated in place
PublishEager(line, d, cache) == IF line = "L274" THEN cache ELSE d

\* app.openapi_schema after a statement: only line 273 assigns it
Publish(line, d, cache) == IF line = "L273" THEN d ELSE cache

Exec(line, rs, d, cache) ==
    CASE line = "L95"  -> Done(Baseline(rs, cache))
      [] line = "L107" -> AddSecurity(d)
      [] line = "L110" -> AddRetries(d)
      [] line = "L126" -> RedirectRequestRef(d)
      [] line = "L127" -> RedirectResponseRef(d)
      [] line = "L134" -> AddSecuritySchemes(d)
      [] line = "L145" -> RenameBody(d)
      [] line = "L147" -> SetTitle(d)
      [] line = "L148" -> SetProperties(d)
      [] line = "L262" -> AddElements(d)
      [] OTHER         -> Done(d)

\* Running lines i.. of the body on d: the whole mutation pipeline.
RECURSIVE RunFrom(_, _, _)
RunFrom(i, rs, d) ==
    IF Lines[i] = "L273"
    THEN Done(d)
    ELSE LET r == Exec(Lines[i], rs, d, None)
         IN  IF r.ok THEN RunFrom(i + 1, rs, r.doc) ELSE r

\* One uninterrupted synthesis from the route table (lines 95-262).
Synthesize(rs) == RunFrom(1, rs, None)

\* ------------------------------------------------------------------ state
VARIABLES
    routes,          \* app.routes: the route table
    openapi_schema,  \* app.openapi_schema: the process-wide cache
    pc,              \* per description request: the line it is about to run
    local,           \* per description request: its local openapi_schema
    ret,             \* per description request: the document returned to it
    generated,       \* number of get_openapi calls made so far
    stored           \* number of writes of app.openapi_schema made so far

apiVars == <<routes, openapi_schema, pc, local, ret, generated, stored>>

Requests == 1 .. NumRequests

\* ---------------------------------- custom_openapi, one statement at a time
\* if app.openapi_schema: return app.openapi_schema
CheckCache(r) ==
    /\ pc[r] = "L92"
    /\ IF Truthy(openapi_schema)
       THEN /\ pc' = [pc EXCEPT ![r] = "returned"]
            /\ ret' = [ret EXCEPT ![r] = openapi_schema]
       ELSE /\ pc' = [pc EXCEPT ![r] = "L95"]
            /\ ret' = ret
    /\ UNCHANGED <<routes, openapi_schema, local, generated, stored>>

NextLine(line) ==
    LET i == CHOOSE k \in 1 .. Len(Lines) : Lines[k] = line
    IN  Lines[i + 1]

\* one statement of lines 95-273, on the request's local document
Statement(r) ==
    /\ pc[r] \in { Lines[i] : i \in 1 .. Len(Lines) - 1 }
    /\ LET res == Exec(pc[r], routes, local[r], openapi_schema)
       IN  /\ local' = [local EXCEPT ![r] = res.doc]
           /\ pc' = [pc EXCEPT ![r] = IF res.ok THEN NextLine(pc[r]) ELSE "raised"]
           /\ openapi_schema' = Publish(pc[r], res.doc, openapi_schema)
    /\ generated' = IF pc[r] = "L95" THEN generated + 1 ELSE generated
    /\ stored' = IF pc[r] = "L273" THEN stored + 1 ELSE stored
    /\ UNCHANGED <<routes, ret>>

\* return app.openapi_schema
Return(r) ==
    /\ pc[r] = "L274"
    /\ ret' = [ret EXCEPT ![r] = openapi_schema]
    /\ pc' = [pc EXCEPT ![r] = "returned"]
    /\ UNCHANGED <<routes, openapi_schema, local, generated, stored>>

\* --------------------------------------- custom_openapi as one whole call
\* variant: the call synthesizes without looking at the cache
custom_openapi_uncached(r) ==
    /\ pc[r] = "L92"
    /\ LET res == Synthesize(routes)
       IN  /\ generated' = generated + 1
           /\ local' = [local EXCEPT ![r] = res.doc]
           /\ IF res.ok
              THEN /\ openapi_schema' = res.doc
                   /\ stored' = stored + 1
                   /\ ret' = [ret EXCEPT ![r] = res.doc]
                   /\ pc' = [pc EXCEPT ![r] = "returned"]
              ELSE /\ pc' = [pc EXCEPT ![r] = "raised"]
                   /\ UNCHANGED <<openapi_schema, stored, ret>>
    /\ UNCHANGED routes

custom_openapi(r) ==
    /\ pc[r] = "L92"
    /\ IF Truthy(openapi_schema)
       THEN /\ ret' = [ret EXCEPT ![r] = openapi_schema]
            /\ pc' = [pc EXCEPT ![r] = "returned"]
            /\ UNCHANGED <<openapi_schema, local, generated, stored>>
       ELSE LET res == Synthesize(routes)
            IN  /\ generated' = generated + 1
                /\ local' = [local EXCEPT ![r] = res.doc]
                /\ IF res.ok
                   THEN /\ openapi_schema' = res.doc
                        /\ stored' = stored + 1
                        /\ ret' = [ret EXCEPT ![r] = res.doc]
                        /\ pc' = [pc EXCEPT ![r] = "returned"]
                   ELSE /\ pc' = [pc EXCEPT ![r] = "raised"]
                        /\ UNCHANGED <<openapi_schema, stored, ret>>
    /\ UNCHANGED routes

\* ------------------------------------------------- the rest of the state
VARIABLES
    environ,         \* os.environ: ENV and ALLOWED_ORIGINS, each [set, value]
    cors,            \* the CORS middleware configuration, if installed
    loggers,         \* logger name |-> [disabled, filters]
    emitted,         \* the log records that reached a handler, in order
    lastRecord,      \* the record most recently submitted to a logger
    raised,          \* the exception most recently raised by a route handler
    response,        \* the response most recently emitted
    corsResponse     \* the most recent answer of the CORS gate

gwVars == <<environ, cors, loggers, emitted, lastRecord, raised, response, corsResponse>>

vars == <<routes, openapi_schema, pc, local, ret, generated, stored,
          environ, cors, loggers, emitted, lastRecord, raised, response, corsResponse>>

\* ---------------------------------------------------------------- strings
Chars == {"a", "b", ","}

RECURSIVE StringsOver(_, _)
StringsOver(alphabet, n) ==
    IF n = 0
    THEN {<<>>}
    ELSE LET shorter == StringsOver(alphabet, n - 1)
         IN  shorter \cup { Append(s, c) : s \in shorter, c \in alphabet }

Unset == [set |-> FALSE, value |-> <<>>]

SetTo(v) == [set |-> TRUE, value |-> v]

\* os.environ.get(name, None) is truthy
EnvTruthy(e) == e.set /\ e.value # <<>>

\* str.split(","): the maximal comma-free pieces, in order
RECURSIVE split(_)
split(s) ==
    IF \A i \in 1 .. Len(s) : s[i] # ","
    THEN <<s>>
    ELSE LET i == CHOOSE k \in 1 .. Len(s) :
                     s[k] = "," /\ \A j \in 1 .. k - 1 : s[j] # ","
         IN  <<SubSeq(s, 1, i - 1)>> \o split(SubSeq(s, i + 1, Len(s)))

Range(q) == { q[i] : i \in 1 .. Len(q) }

\* ---------------------------------------------------------- CORS gate
NoCors ==
    [installed |-> FALSE, allow_origins |-> <<>>, allow_methods |-> {},
     allow_headers |-> {}, allow_credentials |-> FALSE]

\* variant: the variable is passed on whole, without splitting it at commas
add_middleware_unsplit(allowed_origins) ==
    IF EnvTruthy(allowed_origins)
    THEN [installed |-> TRUE,
          allow_origins |-> <<allowed_origins.value>>,
          allow_methods |-> {"OPTIONS", "POST"},
          allow_headers |-> {"Content-Type"},
          allow_credentials |-> FALSE]
    ELSE NoCors

\* allowed_origins = os.environ.get("ALLOWED_ORIGINS", None); if allowed_origins: ...
add_middleware(allowed_origins) ==
    IF EnvTruthy(allowed_origins)
    THEN [installed |-> TRUE,
          allow_origins |-> split(allowed_origins.value),
          allow_methods |-> {"OPTIONS", "POST"},
          allow_headers |-> {"Content-Type"},
          allow_credentials |-> FALSE]
    ELSE NoCors

\* What the configured policy grants a cross-origin request.
CorsGrant(cfg, origin, method, header) ==
    /\ cfg.installed
    /\ origin \in Range(cfg.allow_origins)
    /\ method \in cfg.allow_methods
    /\ header \in cfg.allow_headers

\* -------------------------------------------------------------- logging
AccessLogger == "uvicorn.access"
ErrorLogger == "uvicorn.error"
AppLogger == "unstructured_api"
LoggerNames == {AccessLogger, ErrorLogger, AppLogger}

\* the length of each message piece, in characters
PieceLen(t) ==
    CASE t = "/healthcheck" -> 12
      [] t = "/metrics" -> 8
      [] t = "GET " -> 4
      [] t = "%s" -> 2
      [] t = "/general/v0/general" -> 19
      [] OTHER -> 1

RECURSIVE TextLen(_)
TextLen(m) == IF m = <<>> THEN 0 ELSE PieceLen(Head(m)) + TextLen(Tail(m))

\* record.getMessage(): msg % args, each "%s" taking the next argument
RECURSIVE Render(_, _)
Render(msg, args) ==
    IF msg = <<>>
    THEN <<>>
    ELSE IF Head(msg) = "%s" /\ args # <<>>
         THEN <<Head(args)>> \o Render(Tail(msg), Tail(args))
         ELSE <<Head(msg)>> \o Render(Tail(msg), args)

getMessage(record) == Render(record.msg, record.args)

\* str.find(marker): the offset of the first occurrence, or -1
find(text, marker) ==
    IF \E i \in 1 .. Len(text) : text[i] = marker
    THEN LET i == CHOOSE k \in 1 .. Len(text) :
                     text[k] = marker /\ \A j \in 1 .. k - 1 : text[j] # marker
         IN  TextLen(SubSeq(text, 1, i - 1))
    ELSE -1

\* variant: the filter looks at the unrendered record.msg
HealthCheckFilterRaw(record) == find(record.msg, "/healthcheck") = -1

\* HealthCheckFilter.filter
HealthCheckFilter(record) == find(getMessage(record), "/healthcheck") = -1

\* MetricsCheckFilter.filter
MetricsCheckFilter(record) == find(getMessage(record), "/metrics") = -1

ApplyFilter(f, record) ==
    CASE f = "HealthCheckFilter" -> HealthCheckFilter(record)
      [] f = "MetricsCheckFilter" -> MetricsCheckFilter(record)
      [] OTHER -> TRUE

\* uvicorn_logger.disabled = True when ENV is dev or prod; the two addFilter calls
ConfigureLoggers(env) ==
    [n \in LoggerNames |->
        [disabled |-> (n = ErrorLogger /\ env.set /\ env.value \in {"dev", "prod"}),
         filters |-> IF n = AccessLogger
                     THEN <<"HealthCheckFilter", "MetricsCheckFilter">>
                     ELSE <<>>]]

\* Logger.handle: a disabled logger drops the record, and so does any filter
\* of the logger that rejects it
Emits(lg, record) ==
    /\ ~ lg[record.name].disabled
    /\ \A i \in 1 .. Len(lg[record.name].filters) :
           ApplyFilter(lg[record.name].filters[i], record)

NoRecord == [name |-> "", levelname |-> "", msg |-> <<>>, args |-> <<>>]

MakeRecord(name, level, msg, args) ==
    [name |-> name, levelname |-> level, msg |-> msg, args |-> args]

\* ------------------------------------------------------ error normalizer
Details == { <<"File type not supported">>, <<"GET ", "/healthcheck">> }

\* What a route handler may raise: an HTTPException(status_code, detail), or
\* another exception whose args are () or (message,), possibly carrying a
\* status_code attribute of its own (0: none).
Exceptions ==
    { [cls |-> "HTTPException", status_code |-> s, detail |-> d, args |-> <<>>] :
        s \in {400, 404}, d \in Details }
    \cup
    { [cls |-> "ValueError", status_code |-> s, detail |-> <<>>, args |-> a] :
        s \in {0, 404}, a \in {<<>>} \cup { <<d>> : d \in Details } }

\* str(e) of an exception built from at most one argument
str(e) == IF e.args = <<>> THEN <<>> ELSE e.args[1]

\* the classes an exception is an instance of, most specific first
Mro(cls) == IF cls = "Exception" THEN <<"Exception">> ELSE <<cls, "Exception">>

\* @app.exception_handler(HTTPException), @app.exception_handler(Exception)
exception_handlers ==
    ("HTTPException" :> "http_error_handler") @@ ("Exception" :> "error_handler")

\* the handler registered for the most specific class of the exception
lookup_handler(e) ==
    LET mro == Mro(e.cls)
        i == CHOOSE k \in 1 .. Len(mro) :
                 /\ mro[k] \in DOMAIN exception_handlers
                 /\ \A j \in 1 .. k - 1 : mro[j] \notin DOMAIN exception_handlers
    IN  exception_handlers[mro[i]]

\* variant: the structured handler answers 500 like the generic one
http_error_handler_500(e) ==
    [logs |-> <<MakeRecord(AppLogger, "ERROR", e.detail, <<>>)>>,
     status_code |-> 500,
     content |-> [detail |-> e.detail]]

\* logger.error(e.detail); JSONResponse(status_code=e.status_code, ...)
http_error_handler(e) ==
    [logs |-> <<MakeRecord(AppLogger, "ERROR", e.detail, <<>>)>>,
     status_code |-> e.status_code,
     content |-> [detail |-> e.detail]]

\* variant: the generic handler honours a status_code attribute of the failure
error_handler_status(e) ==
    [logs |-> <<>>,
     status_code |-> IF e.status_code # 0 THEN e.status_code ELSE 500,
     content |-> [detail |-> str(e)]]

\* JSONResponse(status_code=500, content={"detail": str(e)})
error_handler(e) ==
    [logs |-> <<>>,
     status_code |-> 500,
     content |-> [detail |-> str(e)]]

NoException == [cls |-> "", status_code |-> 0, detail |-> <<>>, args |-> <<>>]

NoResponse == [status_code |-> 0, content |-> None, handler |-> ""]

\* ------------------------------------------------------------ start-up
\* The module-level code: the uvicorn.error switch, the CORS gate, the filters.
Boot(env, allowed) ==
    /\ environ = [ENV |-> env, ALLOWED_ORIGINS |-> allowed]
    /\ cors = add_middleware(allowed)
    /\ loggers = ConfigureLoggers(env)
    /\ emitted = <<>>
    /\ lastRecord = NoRecord
    /\ raised = NoException
    /\ response = NoResponse
    /\ corsResponse = [asked |-> FALSE, origin |-> <<>>, method |-> "",
                       header |-> "", granted |-> FALSE, credentials |-> FALSE]

EnvNames == { Unset, SetTo("dev"), SetTo("prod"), SetTo("test") }

OriginLists == { Unset } \cup { SetTo(v) : v \in StringsOver(Chars, MaxLen) }

DefaultTable ==
    { HealthRoute,
      [path |-> PartitionPath, method |-> "post", include_in_schema |-> TRUE,
       body |-> AutoBody, body_fields |-> {"files", "strategy"}, resp_json |-> TRUE] }

ApiIdle(tables) ==
    /\ routes \in tables
    /\ openapi_schema = None
    /\ pc = [r \in Requests |-> "L92"]
    /\ local = [r \in Requests |-> None]
    /\ ret = [r \in Requests |-> None]
    /\ generated = 0
    /\ stored = 0

\* ---------------------------------------------------- gateway operations
\* Handing a record to its logger.
Submit(records) ==
    IF records = <<>>
    THEN UNCHANGED <<emitted, lastRecord>>
    ELSE /\ lastRecord' = records[1]
         /\ emitted' = IF Emits(loggers, records[1])
                       THEN Append(emitted, records[1])
                       ELSE emitted

\* A route handler raises e; the registered handler answers.
RaiseInRoute(e) ==
    /\ Len(emitted) < MaxLog
    /\ LET h == lookup_handler(e)
           out == IF h = "http_error_handler"
                  THEN http_error_handler(e)
                  ELSE error_handler(e)
       IN  /\ Submit(out.logs)
           /\ response' = [status_code |-> out.status_code,
                           content |-> out.content,
                           handler |-> h]
    /\ raised' = e
    /\ UNCHANGED <<environ, cors, loggers, corsResponse>>
    /\ UNCHANGED apiVars

\* GET /healthcheck: the fixed payload, and the server's access-log line for it.
healthcheck ==
    /\ Len(emitted) < MaxLog
    /\ response' = [status_code |-> 200,
                    content |-> [healthcheck |-> "HEALTHCHECK STATUS: EVERYTHING OK!"],
                    handler |-> "healthcheck"]
    /\ Submit(<<MakeRecord(AccessLogger, "INFO", <<"GET ", "%s">>, <<HealthPath>>)>>)
    /\ UNCHANGED <<environ, cors, loggers, raised, corsResponse>>
    /\ UNCHANGED apiVars

LogInputs ==
    { [msg |-> <<"GET ", "%s">>, args |-> <<a>>] :
        a \in {"/healthcheck", "/metrics", "/general/v0/general"} }
    \cup { [msg |-> <<"GET ", "/metrics">>, args |-> <<>>],
           [msg |-> <<"Started Unstructured API">>, args |-> <<>>] }

\* The server (or the application) logs a record on one of the loggers.
LogRecord(name, inp) ==
    /\ Len(emitted) < MaxLog
    /\ Submit(<<MakeRecord(name, IF name = ErrorLogger THEN "ERROR" ELSE "INFO",
                           inp.msg, inp.args)>>)
    /\ UNCHANGED <<environ, cors, loggers, raised, response, corsResponse>>
    /\ UNCHANGED apiVars

\* A cross-origin request reaches the gate.
CorsRequest(origin, method, header) ==
    /\ corsResponse' = [asked |-> TRUE, origin |-> origin, method |-> method,
                        header |-> header,
                        granted |-> CorsGrant(cors, origin, method, header),
                        credentials |-> cors.allow_credentials]
    /\ UNCHANGED <<environ, cors, loggers, emitted, lastRecord, raised, response>>
    /\ UNCHANGED apiVars

\* ------------------------------------------------------- specifications
\* The gateway: failures, the health probe and logging.
Init == /\ \E env \in EnvNames : Boot(env, Unset)
        /\ ApiIdle({DefaultTable})

Next ==
    \/ \E e \in Exceptions : RaiseInRoute(e)
    \/ healthcheck
    \/ \E name \in LoggerNames, inp \in LogInputs : LogRecord(name, inp)

Spec == Init /\ [][Next]_vars

\* The CORS gate under every origin allow-list.
Origins == { s \in StringsOver(Chars, MaxLen) : \A i \in 1 .. Len(s) : s[i] # "," }

InitCors == /\ \E allowed \in OriginLists : Boot(Unset, allowed)
            /\ ApiIdle({DefaultTable})

NextCors ==
    \E origin \in Origins, method \in {"OPTIONS", "POST", "GET"},
       header \in {"Content-Type", "Authorization"} :
        CorsRequest(origin, method, header)

SpecCors == InitCors /\ [][NextCors]_vars

\* Description requests, interleaved statement by statement.
InitApi == /\ Boot(Unset, Unset)
           /\ ApiIdle(RouteTables)

NextApi ==
    \E r \in Requests :
        \/ (CheckCache(r) /\ UNCHANGED gwVars)
        \/ (Statement(r) /\ UNCHANGED gwVars)
        \/ (Return(r) /\ UNCHANGED gwVars)

SpecApi == InitApi /\ [][NextApi]_vars

\* Description requests, one whole call after another.
NextSeq == \E r \in Requests : custom_openapi(r) /\ UNCHANGED gwVars

SpecSeq == InitApi /\ [][NextSeq]_vars

\* ================================================================ claims
\* ------------------------------------------------------------------- C1
\* C1: whenever a route handler raises an HTTPException with status S and
\* message M, the response has status S and body {"detail": M}, it is not the
\* generic 500 handler that answers, and an ERROR record with message M on the
\* application logger is appended to the emitted log.
C1_StructuredFailure ==
    [][\A e \in Exceptions :
          (e.cls = "HTTPException" /\ RaiseInRoute(e)) =>
              /\ response'.status_code = e.status_code
              /\ response'.content = [detail |-> e.detail]
              /\ response'.handler = "http_error_handler"
              /\ emitted' = Append(emitted,
                    [name |-> AppLogger, levelname |-> "ERROR",
                     msg |-> e.detail, args |-> <<>>])]_vars

C1_Witness ==
    /\ raised.cls = "HTTPException"
    /\ raised.status_code = 404
    /\ response.status_code = 404
    /\ response.content = [detail |-> raised.detail]
    /\ emitted # <<>>
    /\ emitted[Len(emitted)].msg = raised.detail

\* ------------------------------------------------------------------- C2
\* C2: whenever a route handler raises an exception that is not an
\* HTTPException, with string representation M, the response has status 500
\* and body {"detail": M} whatever status_code the exception carries, and
\* handling it hands no record to any logger.
C2_UnstructuredFailure ==
    [][\A e \in Exceptions :
          (e.cls # "HTTPException" /\ RaiseInRoute(e)) =>
              /\ response'.status_code = 500
              /\ response'.content =
                     [detail |-> IF Len(e.args) = 1 THEN e.args[1] ELSE <<>>]
              /\ response'.handler = "error_handler"
              /\ emitted' = emitted
              /\ lastRecord' = lastRecord]_vars

C2_Witness ==
    /\ raised.cls = "ValueError"
    /\ raised.status_code = 404
    /\ raised.args = << <<"File type not supported">> >>
    /\ response.status_code = 500
    /\ response.content = [detail |-> <<"File type not supported">>]
    /\ lastRecord = NoRecord

\* ------------------------------------------------------------------- C6
Marked(record) ==
    \E i \in 1 .. Len(getMessage(record)) :
        getMessage(record)[i] \in {"/healthcheck", "/metrics"}

Suppressed == lastRecord \notin Range(emitted)

EnvDisablesErrorLogger ==
    environ.ENV.set /\ environ.ENV.value \in {"dev", "prod"}

\* C6 as stated: the record last handed to a logger was suppressed exactly
\* when it is an access-log record whose rendered message contains
\* "/healthcheck" or "/metrics".
C6_AsStated ==
    lastRecord # NoRecord =>
        (Suppressed <=> (lastRecord.name = AccessLogger /\ Marked(lastRecord)))

\* C6: an access-log record is suppressed exactly when its rendered message
\* contains "/healthcheck" or "/metrics"; a record on the application logger
\* is never suppressed; a record on uvicorn.error is suppressed exactly when
\* ENV is dev or prod; and a record that is not suppressed is emitted as it
\* was submitted.
C6_NoiseFilter ==
    lastRecord # NoRecord =>
        /\ lastRecord.name = AccessLogger => (Suppressed <=> Marked(lastRecord))
        /\ lastRecord.name = AppLogger => ~ Suppressed
        /\ lastRecord.name = ErrorLogger => (Suppressed <=> EnvDisablesErrorLogger)
        /\ ~ Suppressed => emitted[Len(emitted)] = lastRecord

C6_Witness ==
    /\ lastRecord.name = AccessLogger
    /\ lastRecord.msg = <<"GET ", "%s">>
    /\ Marked(lastRecord)
    /\ Suppressed
    /\ emitted # <<>>
    /\ emitted[1].name = AppLogger
    /\ emitted[1].levelname = "ERROR"
    /\ Marked(emitted[1])

\* ------------------------------------------------------------------- C5
\* origin is one of the comma-separated entries of the list: it stands between
\* two commas (or an end of the list) and holds no comma itself
Listed(origin, list) ==
    \E i \in 1 .. Len(list) + 1 :
        \E j \in i - 1 .. Len(list) :
            /\ i = 1 \/ list[i - 1] = ","
            /\ j = Len(list) \/ list[j + 1] = ","
            /\ SubSeq(list, i, j) = origin
            /\ \A k \in 1 .. Len(origin) : origin[k] # ","

\* C5: the CORS gate is installed exactly when ALLOWED_ORIGINS is set and not
\* empty; without it no request is granted CORS headers; with it a request is
\* granted them exactly when its origin is one of the comma-separated entries,
\* its method is OPTIONS or POST and its request header is Content-Type; and
\* credentials are never allowed.
C5_CorsGate ==
    /\ cors.installed <=>
           (environ.ALLOWED_ORIGINS.set /\ environ.ALLOWED_ORIGINS.value # <<>>)
    /\ ~ cors.allow_credentials
    /\ corsResponse.asked =>
           /\ ~ corsResponse.credentials
           /\ corsResponse.granted <=>
                  /\ environ.ALLOWED_ORIGINS.set
                  /\ environ.ALLOWED_ORIGINS.value # <<>>
                  /\ Listed(corsResponse.origin, environ.ALLOWED_ORIGINS.value)
                  /\ corsResponse.method \in {"OPTIONS", "POST"}
                  /\ corsResponse.header = "Content-Type"

C5_Witness ==
    /\ environ.ALLOWED_ORIGINS = SetTo(<<"a", ",", "b">>)
    /\ corsResponse.asked
    /\ corsResponse.origin = <<"b">>
    /\ corsResponse.method = "POST"
    /\ corsResponse.granted

\* ------------------------------------------------------------------- C3
\* C3: with one description request after another, at most one synthesis is
\* ever stored and, once a document is cached, get_openapi has run exactly
\* once; from then on every call leaves the cache, the number of get_openapi
\* calls and the number of stores as they are and returns the cached document.
C3_SynthesizedOnce ==
    /\ [](stored <= 1 /\ (Truthy(openapi_schema) => generated = 1 /\ stored = 1))
    /\ [][Truthy(openapi_schema) =>
             /\ openapi_schema' = openapi_schema
             /\ generated' = generated
             /\ stored' = stored
             /\ \A r \in Requests :
                    pc'[r] # pc[r] =>
                        pc'[r] = "returned" /\ ret'[r] = openapi_schema]_vars

C3_Witness ==
    /\ Truthy(openapi_schema)
    /\ \A r \in Requests : pc[r] = "returned" /\ ret[r] = openapi_schema
    /\ generated = 1

\* ------------------------------------------------------------------- C4
HandAuthoredFields ==
    {"files", "strategy", "gz_uncompressed_content_type", "output_format",
     "coordinates", "encoding", "hi_res_model_name", "include_page_breaks",
     "languages", "pdf_infer_table_structure", "skip_infer_table_types",
     "xml_keep_tags", "chunking_strategy", "multipage_sections",
     "combine_under_n_chars", "new_after_n_chars", "max_characters"}

\* the pointer names something the document holds
Resolves(d, ptr) ==
    /\ Len(ptr) = 3
    /\ HasKey(d, ptr[1])
    /\ HasKey(d[ptr[1]], ptr[2])
    /\ HasKey(d[ptr[1]][ptr[2]], ptr[3])

\* every "$ref" found on an operation
RefsOf(op) ==
    { op.responses[c].content[t].schema["$ref"] :
        <<c, t>> \in { x \in (DOMAIN op.responses) \X {AppJson, "text/plain"} :
                          /\ HasKey(op.responses[x[1]].content, x[2])
                          /\ HasKey(op.responses[x[1]].content[x[2]].schema, "$ref") } }
    \cup
    (IF HasKey(op, "requestBody")
     THEN { op.requestBody.content[t].schema["$ref"] :
                t \in { x \in DOMAIN op.requestBody.content :
                            HasKey(op.requestBody.content[x].schema, "$ref") } }
     ELSE {})

PartitionOperationPublished(d) ==
    /\ HasOperation(d)
    /\ LET op == d.paths[PartitionPath].post
           req == op.requestBody.content[Multipart].schema
           resp == op.responses["200"].content[AppJson].schema
       IN  /\ req["$ref"] = <<"components", "schemas", "partition_parameters">>
           /\ Resolves(d, req["$ref"])
           /\ DOMAIN d.components.schemas["partition_parameters"].properties
                  = HandAuthoredFields
           /\ resp = ("$ref" :> <<"components", "schemas", "Elements">>)
           /\ Resolves(d, resp["$ref"])
           /\ ~ HasKey(d.components.schemas, "Body_partition")
           /\ \A ptr \in RefsOf(op) : Resolves(d, ptr)

\* the documents a synthesis has finished: a request's local document once it
\* is past line 262, a returned document, and the cache
Synthesized ==
    { local[r] : r \in { x \in Requests : pc[x] \in {"L273", "L274"} } }
    \cup { ret[r] : r \in { x \in Requests : pc[x] = "returned" } }
    \cup (IF Truthy(openapi_schema) THEN {openapi_schema} ELSE {})

\* C4: in every synthesized document the partition operation's multipart
\* request schema refers to the component partition_parameters, which exists
\* and has exactly the hand-authored fields as its properties; its 200
\* response schema refers to the component Elements, which exists; there is no
\* component Body_partition; and every $ref on the operation resolves.
C4_PartitionOperation ==
    \A d \in Synthesized : PartitionOperationPublished(d)

C4_Witness ==
    /\ \E r \in Requests : pc[r] = "returned" /\ PartitionOperationPublished(ret[r])
    /\ Truthy(openapi_schema)

\* ------------------------------------------------------------------- C7
\* every document a request holds, has been returned, or is cached
Documents ==
    { d \in { local[r] : r \in Requests } \cup { ret[r] : r \in Requests }
              \cup {openapi_schema} : Truthy(d) }

\* C7: "/healthcheck" is not among the paths of any document: not of the
\* cached one, nor of one returned by custom_openapi, nor of one in the making.
C7_HealthNotPublished ==
    \A d \in Documents : ~ HasKey(d.paths, "/healthcheck")

C7_Witness ==
    /\ \E x \in routes : x.path = "/healthcheck"
    /\ Truthy(openapi_schema)
    /\ HasKey(openapi_schema.paths, PartitionPath)
    /\ \E r \in Requests : pc[r] = "returned" /\ ret[r] = openapi_schema

\* ------------------------------------------------------------------- C8
\* the baseline lacks the partition operation or the generated component
BaselineLacksKeys ==
    LET b == get_openapi(routes)
    IN  \/ ~ HasKey(b.paths, "/general/v0/general")
        \/ ~ HasKey(b.paths["/general/v0/general"], "post")
        \/ ~ HasKey(b, "components")
        \/ ~ HasKey(b.components.schemas, "Body_partition")

\* C8: when the baseline lacks the partition operation or the component
\* Body_partition, no request gets past the renaming statement, none is
\* returned a document and the cache stays unset; and a request that raised
\* has been returned nothing.
C8_FailsLoudly ==
    /\ BaselineLacksKeys =>
           /\ ~ Truthy(openapi_schema)
           /\ \A r \in Requests :
                  /\ pc[r] \notin {"L147", "L148", "L262", "L273", "L274", "returned"}
                  /\ ~ Truthy(ret[r])
    /\ \A r \in Requests : pc[r] = "raised" => ~ Truthy(ret[r])

C8_Witness ==
    /\ BaselineLacksKeys
    /\ ~ Truthy(openapi_schema)
    /\ \E r \in Requests :
           /\ pc[r] = "raised"
           /\ HasKey(local[r], "security")
           /\ HasOperation(local[r])
           /\ HasKey(local[r].paths[PartitionPath].post, "requestBody")
           /\ local[r].paths[PartitionPath].post.requestBody.content[Multipart].schema["$ref"]
                  = Ref(PublicBody)
           /\ ~ Truthy(ret[r])

\* ------------------------------------------------------------------- C9
\* C9: under every interleaving of the requests' statements, a document
\* returned to a request is the one a single uninterrupted synthesis from the
\* route table produces, and so is the cached document whenever there is one.
C9_RaceTolerated ==
    /\ \A r \in Requests :
           pc[r] = "returned" =>
               Synthesize(routes).ok /\ ret[r] = Synthesize(routes).doc
    /\ Truthy(openapi_schema) =>
           Synthesize(routes).ok /\ openapi_schema = Synthesize(routes).doc

C9_Witness ==
    /\ generated >= 2
    /\ stored >= 2
    /\ \A r \in Requests : pc[r] = "returned" /\ ret[r] = openapi_schema

\* ------------------------------------------------------------------ C10
\* C10: a synthesis that completes while a document is already cached has
\* produced a document equal to the cached one and leaves the cache as it is;
\* no synthesis raises once a document is cached; and no step changes the
\* route table or a document already returned.
C10_Idempotent ==
    /\ [](\A r \in Requests :
              (pc[r] = "L273" /\ Truthy(openapi_schema)) => local[r] = openapi_schema)
    /\ [](Truthy(openapi_schema) => \A r \in Requests : pc[r] # "raised")
    /\ [][/\ routes' = routes
          /\ Truthy(openapi_schema) => openapi_schema' = openapi_schema
          /\ \A r \in Requests : pc[r] = "returned" => ret'[r] = ret[r]]_vars

C10_Witness ==
    /\ stored = 2
    /\ Truthy(openapi_schema)
    /\ \E r \in Requests : pc[r] = "L274" /\ local[r] = openapi_schema

====
